---------------------------- MODULE Spec2Model ----------------------------
(***************************************************************************)
(* FM receiver pipeline of src/main.c: frequency discriminator,           *)
(* de-emphasis filter, DC-block filter, decimator, 16-bit quantizer and   *)
(* the capture loop of main that drives them.                             *)
(*                                                                         *)
(* Numbers.  The C code computes in IEEE-754 binary32 (float).  A float is *)
(* modelled bit-exactly as a pair <<m, e>> of integers standing for        *)
(* m * 2^e, with 2^23 <= |m| < 2^24 (24 significant bits) or m = 0.        *)
(* Every arithmetic operator below rounds to nearest, ties to even, as the *)
(* hardware does.  NaN is a value of its own.  Subnormals and infinities    *)
(* are outside the values the bounded inputs can produce and are not       *)
(* represented.                                                            *)
(***************************************************************************)
EXTENDS Integers, Sequences, FiniteSets, TLC

(***************************************************************************)
(* binary32 arithmetic                                                     *)
(***************************************************************************)
Pow2(k) == 2 ^ k

Abs(n) == IF n < 0 THEN -n ELSE n

Sgn(n) == IF n < 0 THEN -1 ELSE 1

RECURSIVE BitLen(_)
BitLen(n) == IF n = 0 THEN 0 ELSE 1 + BitLen(n \div 2)

Zero == <<0, 0>>

\* The value "not a number" of the float type: it compares false with every
\* float and every arithmetic operation on it gives it back.
NaN == <<0, 1>>

\* n >> d, the bits shifted out OR-ed into the lowest bit kept ("sticky").
ShiftRS(n, d) ==
    IF d = 0 THEN n
    ELSE IF d >= 30 THEN (IF n = 0 THEN 0 ELSE 1)
    ELSE LET q == n \div Pow2(d)
         IN  IF n % Pow2(d) = 0 \/ q % 2 = 1 THEN q ELSE q + 1

\* The float nearest to sign * (M + t) * 2^E, where M >= 0 is an integer and
\* 0 <= t < 1 is a discarded tail known only as sticky (t > 0).  A sticky
\* tail requires M to carry at least 25 bits.
RoundMant(sign, M, E, sticky) ==
    LET Shifted(s, mant, r, half) ==
            LET up == r > half \/ (r = half /\ (sticky \/ mant % 2 = 1))
            IN  IF up /\ mant + 1 = Pow2(24) THEN <<sign * Pow2(23), E + s + 1>>
                ELSE IF up THEN <<sign * (mant + 1), E + s>>
                ELSE <<sign * mant, E + s>>
        Bits(b) ==
            IF b <= 24
            THEN <<sign * M * Pow2(24 - b), E - (24 - b)>>
            ELSE Shifted(b - 24, M \div Pow2(b - 24), M % Pow2(b - 24),
                         Pow2(b - 25))
    IN  IF M = 0 THEN Zero ELSE Bits(BitLen(M))

\* float x + float y.
FAdd(x, y) ==
    IF x = NaN \/ y = NaN THEN NaN
    ELSE IF x[1] = 0 THEN y
    ELSE IF y[1] = 0 THEN x
    ELSE LET Sum(hi, lo) ==
                 LET X == Abs(hi[1]) * 32
                     Y == ShiftRS(Abs(lo[1]) * 32, hi[2] - lo[2])
                     Signed(S) ==
                         RoundMant(IF S < 0 THEN -Sgn(hi[1]) ELSE Sgn(hi[1]),
                                   Abs(S), hi[2] - 5, FALSE)
                 IN  Signed(IF Sgn(hi[1]) = Sgn(lo[1]) THEN X + Y ELSE X - Y)
         IN  IF x[2] >= y[2] THEN Sum(x, y) ELSE Sum(y, x)

FNeg(x) == <<-x[1], x[2]>>

\* float x - float y.
FSub(x, y) == FAdd(x, FNeg(y))

\* float x * float y: the 48-bit product of the mantissas in 12-bit limbs.
FMul(x, y) ==
    IF x = NaN \/ y = NaN THEN NaN
    ELSE IF x[1] = 0 \/ y[1] = 0 THEN Zero
    ELSE LET Limbs(a1, a0, b1, b0) ==
                 LET Parts(cr, low) ==
                         LET H == a1 * b1 + cr \div 4096 + low \div Pow2(24)
                             L == low % Pow2(24)
                         IN  RoundMant(Sgn(x[1]) * Sgn(y[1]),
                                       H * 4 + L \div Pow2(22),
                                       x[2] + y[2] + 22, L % Pow2(22) # 0)
                 IN  Parts(a1 * b0 + a0 * b1,
                           ((a1 * b0 + a0 * b1) % 4096) * 4096 + a0 * b0)
         IN  Limbs(Abs(x[1]) \div 4096, Abs(x[1]) % 4096,
                   Abs(y[1]) \div 4096, Abs(y[1]) % 4096)

\* x < y on floats.
FLt(x, y) == x # NaN /\ y # NaN /\ FSub(x, y)[1] < 0

\* The float equal to the integer n, |n| < 2^24.
FromInt(n) == RoundMant(Sgn(n), Abs(n), 0, FALSE)

\* The float x * 2^k.
Scale(x, k) == IF x[1] = 0 THEN Zero ELSE <<x[1], x[2] + k>>

\* (int) x: truncation toward zero.
Trunc(x) ==
    IF x[2] >= 0 THEN x[1] * Pow2(x[2])
    ELSE IF x[2] <= -24 THEN 0
    ELSE Sgn(x[1]) * (Abs(x[1]) \div Pow2(-x[2]))


(***************************************************************************)
(* Constants of the C library and of the program, as floats                *)
(***************************************************************************)
\* M_PI is the double 884279719003555 * 2^-48.  A float m * 2^-22 exceeds it
\* exactly when m > MPiMant, the integer part of M_PI * 2^22.
MPiMant == 13176794

\* 2 * M_PI = (TwoPiHi + TwoPiLo / 2^23) * 2^-24.
TwoPiHi == 105414357

TwoPiLo == 558499

\* (float) of atan2's results on the eight directions of the model's inputs.
PiF == <<13176795, -22>>

HalfPiF == <<13176795, -23>>

QuarterPiF == <<13176795, -24>>

ThreeQuarterPiF == <<9882596, -22>>

One == <<8388608, -23>>

\* 127.5f of convert_value.
MidScale == <<16711680, -17>>

\* float alpha = 1.0 - exp(-(1.0/(TAU * SAMPLE_RATE))), TAU * SAMPLE_RATE = 48
\* in the source (50 us at 960 kHz).
alpha == <<11069107, -29>>

\* const float R = 0.99 of dc_block_filter.
R == <<16609444, -24>>

\* const float GAIN = 32767.0f of convert_samples.
GAIN == <<16776704, -9>>

\* 32767.0f and -32768.0f, the clipping limits of convert_samples.
ClipMax == <<16776704, -9>>

ClipMin == <<-8388608, -8>>

(***************************************************************************)
(* Frequency discriminator                                                 *)
(***************************************************************************)
\* float convert_value(uint8_t value): (float)value - 127.5f.
convert_value(value) == FSub(FromInt(value), MidScale)

\* (float) atan2(q, i) for a point on one of the eight directions k * pi/4
\* (|q| = |i|, or one of them zero) and for the origin.
Atan2F(q, i) ==
    LET sq == IF q[1] = 0 THEN 0 ELSE Sgn(q[1])
        si == IF i[1] = 0 THEN 0 ELSE Sgn(i[1])
        diag == Abs(q[1]) = Abs(i[1]) /\ q[2] = i[2]
    IN  CASE sq = 0 /\ si >= 0 -> Zero
          [] sq = 0 /\ si < 0  -> PiF
          [] si = 0 /\ sq > 0  -> HalfPiF
          [] si = 0 /\ sq < 0  -> FNeg(HalfPiF)
          [] diag /\ si > 0 /\ sq > 0 -> QuarterPiF
          [] diag /\ si > 0 /\ sq < 0 -> FNeg(QuarterPiF)
          [] diag /\ si < 0 /\ sq > 0 -> ThreeQuarterPiF
          [] diag /\ si < 0 /\ sq < 0 -> FNeg(ThreeQuarterPiF)

\* (double) x > M_PI.
GtMPi(x) == x[1] > 0 /\ (x[2] > -22 \/ (x[2] = -22 /\ x[1] > MPiMant))

\* (double) x < -M_PI.
LtNegMPi(x) == GtMPi(FNeg(x))

\* The float nearest to sign * (K + L / 2^23) * 2^-24, 0 <= K, 0 < L < 2^23.
RoundSplit(sign, K, L) ==
    LET Shift(t) == RoundMant(sign, K * Pow2(t) + L \div Pow2(23 - t),
                              -24 - t, L % Pow2(23 - t) # 0)
        Bits(b) == Shift(IF b >= 26 THEN 0 ELSE IF b <= 3 THEN 23 ELSE 26 - b)
    IN  Bits(BitLen(K))

\* instant_freq -= 2 * M_PI: the subtraction is done in double, where it is
\* exact, and the result is narrowed to float.  For 0 < x < 128.
SubTwoPi(x) ==
    LET n == x[1] * Pow2(x[2] + 24)
    IN  IF n <= TwoPiHi
        THEN RoundSplit(-1, TwoPiHi - n, TwoPiLo)
        ELSE RoundSplit(1, n - TwoPiHi - 1, Pow2(23) - TwoPiLo)

\* Variant: the branch instant_freq < -M_PI leaves the value as it is.
AddTwoPi_skipped(x) == x

\* instant_freq += 2 * M_PI, for -128 < x < 0.
AddTwoPi(x) == FNeg(SubTwoPi(FNeg(x)))

\* Variant: the phase difference is returned without the +-2*M_PI correction.
get_instant_freq_nowrap(i1, q1, i2, q2) ==
    FSub(Atan2F(q2, i2), Atan2F(q1, i1))

\* float get_instant_freq(float i1, float q1, float i2, float q2)
get_instant_freq(i1, q1, i2, q2) ==
    LET phase1 == Atan2F(q1, i1)
        phase2 == Atan2F(q2, i2)
        Wrap(instant_freq) ==
            IF GtMPi(instant_freq) THEN SubTwoPi(instant_freq)
            ELSE IF LtNegMPi(instant_freq) THEN AddTwoPi(instant_freq)
            ELSE instant_freq
    IN  Wrap(FSub(phase2, phase1))

\* The indices get_freq_values writes: for (i = 0; i < len - 1; i++).
DiscIndices(len) == 0 .. (len - 2)

\* void get_freq_values(freq_samples, i_samples, q_samples, len): the arrays
\* are functions on C indices 0 .. n-1; the result is freq_samples afterwards.
get_freq_values(freq_samples, i_samples, q_samples, len) ==
    [k \in DOMAIN freq_samples |->
        IF k \in DiscIndices(len)
        THEN get_instant_freq(i_samples[k], q_samples[k],
                              i_samples[k + 1], q_samples[k + 1])
        ELSE freq_samples[k]]

(***************************************************************************)
(* De-emphasis and DC-block filters                                        *)
(***************************************************************************)
\* The indices both filters work on when called with len: 0 .. len-1.
FilterIndices(len) == 0 .. (len - 1)

\* for (i = 1; i < len; i++) freq_samples[i] = alpha * freq_samples[i]
\*                                  + (1.0f - alpha) * freq_samples[i - 1];
RECURSIVE deemph_loop(_, _, _)
deemph_loop(fs, i, len) ==
    IF i < len
    THEN deemph_loop([fs EXCEPT ![i] = FAdd(FMul(alpha, fs[i]),
                                            FMul(FSub(One, alpha), fs[i - 1]))],
                     i + 1, len)
    ELSE fs

\* void deemphasize_filter(float *freq_samples, float last_sample, int len)
deemphasize_filter(freq_samples, last_sample, len) ==
    deemph_loop([freq_samples EXCEPT ![0] =
                    FAdd(FMul(alpha, freq_samples[0]),
                         FMul(FSub(One, alpha), last_sample))],
                1, len)

\* for (i = 1; i < len; i++) { tmp_res = samples_buffer[i] - last
\*     + R * samples_buffer[i-1]; last = samples_buffer[i];
\*     samples_buffer[i] = tmp_res; }
RECURSIVE dc_block_loop(_, _, _, _)
dc_block_loop(sb, last, i, len) ==
    IF i < len
    THEN dc_block_loop([sb EXCEPT ![i] = FAdd(FSub(sb[i], last),
                                              FMul(R, sb[i - 1]))],
                       sb[i], i + 1, len)
    ELSE sb

\* void dc_block_filter(float *samples_buffer, int len)
dc_block_filter(samples_buffer, len) ==
    dc_block_loop(samples_buffer, samples_buffer[0], 1, len)

(***************************************************************************)
(* demodulate                                                              *)
(***************************************************************************)
\* float demodulate(float *freq_samples, float last_sample, uint8_t *buffer,
\* int len).  The result records freq_samples as the call leaves it, the
\* returned value, and (for the properties) freq_samples as it stood between
\* the de-emphasis and the DC-block filter, with the index sets of the stages.
demodulate(freq_samples, last_sample, buffer, len) ==
    LET n == len \div 2
        i_samples == [i \in 0 .. (n - 1) |-> convert_value(buffer[2 * i])]
        q_samples == [i \in 0 .. (n - 1) |-> convert_value(buffer[2 * i + 1])]
        Return(de, dc) ==
            [freq_samples |-> dc,
             ret          |-> dc[n - 1],
             after_deemph |-> de,
             disc_idx     |-> DiscIndices(n),
             filt_idx     |-> FilterIndices(n)]
        DcBlock(de) == Return(de, dc_block_filter(de, n))
        Deemph(fv) == DcBlock(deemphasize_filter(fv, last_sample, n))
    IN  Deemph(get_freq_values(freq_samples, i_samples, q_samples, n))

(***************************************************************************)
(* Decimator                                                               *)
(***************************************************************************)
\* for (i = 0, j = 0; i < (len / D); i++, j += D)
\*     decimated_samples[i] = freq_samples[j];
\* st carries the output array and the indices read and written so far.
RECURSIVE decimate_loop(_, _, _, _, _, _)
decimate_loop(D, st, freq_samples, i, j, len) ==
    IF i < len \div D
    THEN decimate_loop(D,
                       [out    |-> [st.out EXCEPT ![i] = freq_samples[j]],
                        reads  |-> st.reads \cup {j},
                        writes |-> st.writes \cup {i}],
                       freq_samples, i + 1, j + D, len)
    ELSE st

\* Variant: the first len / D samples are copied instead of every D-th.
decimate_by_prefix(D, decimated_samples, freq_samples, len) ==
    LET Return(st) == [decimated_samples |-> st.out, ret |-> len \div D,
                       reads |-> st.reads, writes |-> st.writes]
    IN  Return(decimate_loop(1, [out |-> decimated_samples, reads |-> {},
                                 writes |-> {}],
                             freq_samples, 0, 0, len \div D))

\* int decimate(float *decimated_samples, float *freq_samples, int len) with
\* the macro DECIMATION_FACTOR as the parameter D.
decimate_by(D, decimated_samples, freq_samples, len) ==
    LET Return(st) == [decimated_samples |-> st.out, ret |-> len \div D,
                       reads |-> st.reads, writes |-> st.writes]
    IN  Return(decimate_loop(D, [out |-> decimated_samples, reads |-> {},
                                 writes |-> {}],
                             freq_samples, 0, 0, len))

(***************************************************************************)
(* Quantizer                                                               *)
(***************************************************************************)
Int16 == (-32768) .. 32767

\* float res = samples[i] * GAIN, then the two clipping branches: the value
\* handed to the (int16_t) conversion.
clip(sample) ==
    LET Clip(res) == IF FLt(ClipMax, res) THEN ClipMax
                     ELSE IF FLt(res, ClipMin) THEN ClipMin
                     ELSE res
    IN  Clip(FMul(sample, GAIN))

\* Whether (int16_t) res is defined: res is a number whose integral part fits
\* int16_t.
Representable(res) == res # NaN /\ Trunc(res) \in Int16

\* (int16_t) res.  The conversion truncates toward zero; when it is not
\* defined any int16_t may result.
int16_cast(res) == IF Representable(res) THEN {Trunc(res)} ELSE Int16

\* void convert_samples(int16_t *buffer, float *samples, int len): the set of
\* arrays the call can leave in buffer[0 .. len-1].
RECURSIVE convert_loop(_, _, _)
convert_loop(samples, i, len) ==
    IF i < len
    THEN {[k \in 0 .. (len - 1) |-> IF k = i THEN v ELSE b[k]] :
             b \in convert_loop(samples, i + 1, len),
             v \in int16_cast(clip(samples[i]))}
    ELSE {[k \in 0 .. (len - 1) |-> 0]}

convert_samples(samples, len) == convert_loop(samples, 0, len)

(***************************************************************************)
(* Sizes.  The source has SAMPLE_RATE 960000, AUDIO_RATE 48000 and         *)
(* BUFFER_SIZE 16 * 16384 = 262144 bytes (131072 I/Q pairs); the model      *)
(* keeps their relations at a size that can be enumerated.  As in the       *)
(* source, the pairs of a buffer are not a multiple of DECIMATION_FACTOR    *)
(* (131072 = 6553 * 20 + 12; here 5 = 2 * 2 + 1).                           *)
(***************************************************************************)
\* I/Q pairs per buffer.
NPairs == 5

SAMPLE_RATE == 4

AUDIO_RATE == 2

\* #define DECIMATION_FACTOR (SAMPLE_RATE / AUDIO_RATE)
DECIMATION_FACTOR == SAMPLE_RATE \div AUDIO_RATE

\* #define BUFFER_SIZE (16 * 16384), in bytes: two per I/Q pair.
BUFFER_SIZE == 2 * NPairs

\* audio_duration = atoi(argv[2]) ranges over -1 .. MaxDuration.
MaxDuration == 2

\* total_audio_bytes and the count of completed cycles are followed up to
\* these values and held there.
MaxAudioBytes == 12

MaxCycles == 3

Min(a, b) == IF a < b THEN a ELSE b

(***************************************************************************)
(* State                                                                   *)
(***************************************************************************)
VARIABLES
    pc,                     \* "loop": at the while test of main; "done":
                            \* after the loop and the header rewrite;
                            \* "aborted": exit(1) taken; "idle": main not run
    source,                 \* what the capture device delivers, see SourceData
    total_bytes,            \* int total_bytes
    bytes_count,            \* int bytes_count
    read_bytes,             \* int read_bytes
    result,                 \* int result of the last rtlsdr_read_sync
    last_sample,            \* float last_sample
    buffer,                 \* uint8_t buffer[BUFFER_SIZE]
    freq_samples,           \* float freq_samples[BUFFER_SIZE / 2]
    freq_samples_decimated, \* float freq_samples_decimated[...]
    int_samples,            \* the block last handed to fwrite
    total_audio_bytes,      \* long total_audio_bytes
    header_dataSize,        \* header.dataSize
    cycles,                 \* completed loop bodies (= blocks written)
    tick,                   \* parity of the rtlsdr_read_sync calls made
    trace,                  \* what the stages of the last cycle worked on
    arg,                    \* input of the function under test
    applied,                \* whether the function under test has run
    ret                     \* its result

vars == <<pc, source, total_bytes, bytes_count, read_bytes, result,
          last_sample, buffer, freq_samples, freq_samples_decimated,
          int_samples, total_audio_bytes, header_dataSize, cycles, tick,
          trace, arg, applied, ret>>

driver_vars == <<pc, source, total_bytes, bytes_count, read_bytes, result,
                 last_sample, buffer, freq_samples, freq_samples_decimated,
                 int_samples, total_audio_bytes, header_dataSize, cycles,
                 tick, trace>>

(***************************************************************************)
(* The capture device (rtlsdr_read_sync), as the loop sees it              *)
(***************************************************************************)
\* Bytes of the four I/Q points (+-127.5, +-127.5), in the order of their
\* phases pi/4, 3pi/4, -3pi/4, -pi/4.
DiagI == <<255, 0, 0, 255>>

DiagQ == <<255, 255, 0, 0>>

\* A buffer whose phase starts at point `start` and advances by `step`
\* quarter turns per pair.
Tone(start, step) ==
    [j \in 0 .. (BUFFER_SIZE - 1) |->
        LET d == ((start + (j \div 2) * step) % 4) + 1
        IN  IF j % 2 = 0 THEN DiagI[d] ELSE DiagQ[d]]

\* The data a read can deliver.  "tones": any tone.  "silence": the same
\* I/Q pair over and over.
SourceData(src) ==
    IF src = "silence" THEN {Tone(0, 0)}
    ELSE {Tone(start, step) : start \in 0 .. 1, step \in 0 .. 3}

\* The byte counts a successful read can report in *n_read.  "tones": a full
\* buffer or one pair short of it.  "silence": anything from 0 to a full
\* buffer.
ReadCounts(src) ==
    IF src = "silence" THEN 0 .. BUFFER_SIZE
    ELSE {BUFFER_SIZE - 2, BUFFER_SIZE}

\* What the stack arrays hold before they are first written: buffer[] and
\* freq_samples[] are uninitialized in main.
InitBytes(src) == IF src = "silence" THEN {255} ELSE {0, 255}

Garbage(src) == IF src = "silence" THEN {Zero} ELSE {Zero, One}

NoTrace ==
    [seed |-> Zero, after_deemph |-> [k \in 0 .. (NPairs - 1) |-> Zero],
     disc_idx |-> {}, filt_idx |-> {}, demod_len |-> 0, dec_len |-> 0,
     dec_reads |-> {}]

FnIdle == arg = <<>> /\ applied = FALSE /\ ret = <<>>

\* main up to the while loop, for a device behaving as src.
InitMain(src) ==
    /\ pc = "loop"
    /\ source = src
    /\ \E audio_duration \in (-1) .. MaxDuration :
          total_bytes = SAMPLE_RATE * audio_duration * 2
    /\ bytes_count = 0
    /\ read_bytes = 0
    /\ result = 0
    /\ last_sample = Zero
    /\ \E b \in InitBytes(src) : buffer = [j \in 0 .. (BUFFER_SIZE - 1) |-> b]
    /\ \E g \in Garbage(src) :
          freq_samples = [k \in 0 .. (BUFFER_SIZE \div 2 - 1) |-> g]
    /\ freq_samples_decimated =
          [k \in 0 .. (BUFFER_SIZE \div (2 * DECIMATION_FACTOR) - 1) |-> Zero]
    /\ int_samples = <<>>
    /\ total_audio_bytes = 0
    /\ header_dataSize = 0
    /\ cycles = 0
    /\ tick = 0
    /\ trace = NoTrace
    /\ FnIdle

Init == InitMain("tones")

(***************************************************************************)
(* main: the capture loop                                                  *)
(***************************************************************************)
\* while (bytes_count < total_bytes)
LoopCond == bytes_count < total_bytes

\* int decimate(decimated_samples, freq_samples, len)
decimate(decimated, samples, len) ==
    decimate_by(DECIMATION_FACTOR, decimated, samples, len)

\* rtlsdr_read_sync fills the first n bytes of buffer with data.
Filled(n, data) ==
    [j \in 0 .. (BUFFER_SIZE - 1) |-> IF j < n THEN data[j] ELSE buffer[j]]

\* One pass of the loop body with a read that succeeds (result >= 0),
\* reporting n bytes: demodulate, decimate, convert_samples, fwrite, and the
\* two counters.
Cycle ==
    /\ pc = "loop"
    /\ LoopCond
    /\ result' = 0
    /\ cycles' = Min(cycles + 1, MaxCycles)
    /\ tick' = 1 - tick
    /\ UNCHANGED <<pc, source, total_bytes, header_dataSize, arg, applied, ret>>
    /\ \E n \in ReadCounts(source), data \in SourceData(source) :
        /\ read_bytes' = n
        /\ bytes_count' = bytes_count + n
        /\ buffer' = Filled(n, data)
        /\ \E dm \in {demodulate(freq_samples, last_sample, Filled(n, data),
                                  BUFFER_SIZE)} :
           \E dec \in {decimate(freq_samples_decimated, dm.freq_samples,
                                 BUFFER_SIZE \div 2)} :
             LET samples_to_write == dec.ret
             IN  /\ last_sample' = dm.ret
                 /\ freq_samples' = dm.freq_samples
                 /\ freq_samples_decimated' = dec.decimated_samples
                 /\ int_samples' \in convert_samples(dec.decimated_samples,
                                                     samples_to_write)
                 /\ total_audio_bytes' =
                       Min(total_audio_bytes + samples_to_write * 2,
                           MaxAudioBytes)
                 /\ trace' = [seed         |-> last_sample,
                              after_deemph |-> dm.after_deemph,
                              disc_idx     |-> dm.disc_idx,
                              filt_idx     |-> dm.filt_idx,
                              demod_len    |-> BUFFER_SIZE,
                              dec_len      |-> BUFFER_SIZE \div 2,
                              dec_reads    |-> dec.reads]

\* Variant: a failed read is followed by another pass of the loop.
ReadFail_retry ==
    /\ pc = "loop"
    /\ LoopCond
    /\ \E n \in ReadCounts(source), data \in SourceData(source) :
          /\ buffer' = Filled(n, data)
          /\ read_bytes' = n
    /\ result' = -1
    /\ pc' = "loop"
    /\ tick' = 1 - tick
    /\ UNCHANGED <<source, total_bytes, bytes_count, last_sample, freq_samples,
                   freq_samples_decimated, int_samples, total_audio_bytes,
                   header_dataSize, cycles, trace, arg, applied, ret>>

\* The read fails (result < 0): the message and exit(1).  The failed call may
\* still have stored a count and part of a buffer.
ReadFail ==
    /\ pc = "loop"
    /\ LoopCond
    /\ \E n \in ReadCounts(source), data \in SourceData(source) :
          /\ buffer' = Filled(n, data)
          /\ read_bytes' = n
    /\ result' = -1
    /\ pc' = "aborted"
    /\ tick' = 1 - tick
    /\ UNCHANGED <<source, total_bytes, bytes_count, last_sample, freq_samples,
                   freq_samples_decimated, int_samples, total_audio_bytes,
                   header_dataSize, cycles, trace, arg, applied, ret>>

\* The loop ends: the header is rewritten with the data size, the file and
\* the device are closed.
Exit ==
    /\ pc = "loop"
    /\ ~LoopCond
    /\ pc' = "done"
    /\ header_dataSize' = total_audio_bytes
    /\ UNCHANGED <<source, total_bytes, bytes_count, read_bytes, result,
                   last_sample, buffer, freq_samples, freq_samples_decimated,
                   int_samples, total_audio_bytes, cycles, tick, trace, arg,
                   applied, ret>>

Next == Cycle \/ ReadFail \/ Exit

Spec == Init /\ [][Next]_vars

\* The loop is straight-line code around a blocking read that returns: while
\* main is in the loop it takes its next step, which either leaves the loop
\* or makes one more read.  (Whenever pc = "loop" one of Cycle, ReadFail and
\* Exit is enabled, and each of them changes pc or tick.)
MainRuns ==
    /\ pc = "loop"
    /\ pc' \in {"loop", "done", "aborted"}
    /\ tick' \in {0, 1}

\* The device delivers silence, with any byte counts.
FairSpec ==
    InitMain("silence") /\ [][Next]_vars /\ WF_<<pc, tick>>(MainRuns)

(***************************************************************************)
(* The functions on their own: each specification below draws an input,    *)
(* applies one function of the source to it once and keeps the result.     *)
(***************************************************************************)
\* main does not run.
MainIdle ==
    /\ pc = "idle"
    /\ source = "none"
    /\ total_bytes = 0
    /\ bytes_count = 0
    /\ read_bytes = 0
    /\ result = 0
    /\ last_sample = Zero
    /\ buffer = <<>>
    /\ freq_samples = <<>>
    /\ freq_samples_decimated = <<>>
    /\ int_samples = <<>>
    /\ total_audio_bytes = 0
    /\ header_dataSize = 0
    /\ cycles = 0
    /\ tick = 0
    /\ trace = NoTrace

InitFn(inputs) == MainIdle /\ arg \in inputs /\ applied = FALSE /\ ret = <<>>

\* Longest I/Q sequence given to the discriminator.
MaxTone == 4

\* The eight unit directions k * pi/4, k = 0 .. 7, as (I, Q).
Dir8I == <<1, 1, 0, -1, -1, -1, 0, 1>>

Dir8Q == <<0, 1, 1, 1, 0, -1, -1, -1>>

\* I/Q sequences whose phase advances by step * pi/4 per sample, |step| <= 3,
\* and all pairs of points with coordinates in {-1, 0, 1}.
DiscInputs ==
    {[kind |-> "tone", step |-> step, len |-> len,
      i_samples |-> [k \in 0 .. (len - 1) |->
                        FromInt(Dir8I[((start + k * (step + 8)) % 8) + 1])],
      q_samples |-> [k \in 0 .. (len - 1) |->
                        FromInt(Dir8Q[((start + k * (step + 8)) % 8) + 1])]] :
        start \in 0 .. 7, step \in (-3) .. 3, len \in 2 .. MaxTone}
    \cup
    {[kind |-> "pair", step |-> 0, len |-> 2,
      i_samples |-> [k \in 0 .. 1 |-> FromInt(IF k = 0 THEN i1 ELSE i2)],
      q_samples |-> [k \in 0 .. 1 |-> FromInt(IF k = 0 THEN q1 ELSE q2)]] :
        i1 \in {-1, 0, 1}, q1 \in {-1, 0, 1},
        i2 \in {-1, 0, 1}, q2 \in {-1, 0, 1}}

\* get_freq_values on an array of arg.len slots, as in demodulate.
DiscApply ==
    /\ pc = "idle"
    /\ ~applied
    /\ applied' = TRUE
    /\ ret' = [freq |-> get_freq_values([k \in 0 .. (arg.len - 1) |-> One],
                                        arg.i_samples, arg.q_samples, arg.len)]
    /\ UNCHANGED <<arg, driver_vars>>

DiscSpec == InitFn(DiscInputs) /\ [][DiscApply]_vars

\* Inputs of decimate: lengths up to MaxLen, factors up to MaxFactor.
MaxLen == 12

MaxFactor == 5

Marker == FromInt(-1)

\* Ramps (sample k holds k + off), so that every sample tells its index.  The
\* output array has one slot more than the call fills.
DecInput(D, len, off) ==
    [D |-> D, len |-> len,
     samples |-> [k \in 0 .. (len - 1) |-> FromInt(k + off)],
     out |-> [k \in 0 .. (len \div D) |-> Marker]]

DecInputs ==
    {DecInput(D, len, off) : D \in 1 .. MaxFactor, len \in 0 .. MaxLen,
                             off \in {0, 50}}
    \cup {DecInput(20, 100, 0)}

DecApply ==
    /\ pc = "idle"
    /\ ~applied
    /\ applied' = TRUE
    /\ ret' = decimate_by(arg.D, arg.out, arg.samples, arg.len)
    /\ UNCHANGED <<arg, driver_vars>>

DecSpec == InitFn(DecInputs) /\ [][DecApply]_vars

\* Inputs of the quantizer: the multiples of 1/8 up to MaxEighths / 8, the
\* floats next to each of them, and the floats around +-1.
MaxEighths == 24

NextUp(x) ==
    IF x[1] > 0
    THEN (IF x[1] + 1 = Pow2(24) THEN <<Pow2(23), x[2] + 1>>
                                 ELSE <<x[1] + 1, x[2]>>)
    ELSE (IF x[1] = -Pow2(23) THEN <<1 - Pow2(24), x[2] - 1>>
                              ELSE <<x[1] + 1, x[2]>>)

NextDown(x) == FNeg(NextUp(FNeg(x)))

QuantInputs ==
    {[grid |-> TRUE, eighths |-> k, sample |-> Scale(FromInt(k), -3)] :
        k \in (-MaxEighths) .. MaxEighths}
    \cup
    {[grid |-> FALSE, eighths |-> 0, sample |-> x] :
        x \in UNION {{NextUp(Scale(FromInt(k), -3)),
                      NextDown(Scale(FromInt(k), -3))} :
                        k \in ((-MaxEighths) .. MaxEighths) \ {0}}}
    \cup
    {[grid |-> FALSE, eighths |-> 0,
      sample |-> Scale(FromInt(sg * (32768 + j)), -15)] :
        sg \in {-1, 1}, j \in (-2) .. 2}
    \cup
    {[grid |-> FALSE, eighths |-> 0, sample |-> NaN]}

\* One iteration of the loop of convert_samples.
QuantApply ==
    /\ pc = "idle"
    /\ ~applied
    /\ applied' = TRUE
    /\ \E res \in {clip(arg.sample)} :
       \E pcm \in int16_cast(res) :
          ret' = [res |-> res, pcm |-> pcm]
    /\ UNCHANGED <<arg, driver_vars>>

QuantSpec == InitFn(QuantInputs) /\ [][QuantApply]_vars

(***************************************************************************)
(* Properties of the capture loop                                          *)
(***************************************************************************)
\* Samples per buffer handed to the filters, and the last index the
\* discriminator writes.
NSamples == BUFFER_SIZE \div 2

LastDiscIndex == NSamples - 2

\* C1: the carried-state sample returned for a buffer equals the final output
\* of the de-emphasis filter for that buffer (taken at the last sample the
\* discriminator produced, or at the last slot the filter ran over), that
\* value seeds the de-emphasis of the next buffer, and the first seed is 0.
C1_CarriedStateIsDeemphOutput ==
    /\ cycles = 1 => trace.seed = Zero
    /\ cycles >= 1 =>
          last_sample \in {trace.after_deemph[LastDiscIndex],
                           trace.after_deemph[NSamples - 1]}

\* C2: a buffer whose length is odd, or whose sample count is not a multiple
\* of the decimation factor, is rejected before processing: no cycle
\* demodulates or decimates such a length.
C2_MalformedLengthRejected ==
    cycles >= 1 =>
        /\ trace.demod_len % 2 = 0
        /\ trace.dec_len % DECIMATION_FACTOR = 0
        /\ Cardinality(trace.dec_reads) * DECIMATION_FACTOR = trace.dec_len

\* C9: for a buffer of N I/Q pairs the discriminator writes N - 1 frequency
\* samples, and the filters run over those samples only.
C9_FiltersOnDiscriminatorOutput ==
    cycles >= 1 =>
        /\ trace.disc_idx = 0 .. (NSamples - 2)
        /\ trace.filt_idx \subseteq trace.disc_idx

\* C10: only the bytes delivered by the read of this cycle are demodulated.
C10_OnlyDeliveredBytes ==
    cycles >= 1 => trace.demod_len = read_bytes

\* C4: a read that reports failure ends the program at once: the step that
\* gets a negative result aborts without touching the carried sample, the
\* counters, the sample arrays or the output, and no step follows it.
C4_ReadFailureFatal ==
    [][/\ result >= 0
       /\ result' < 0 =>
            /\ pc' = "aborted"
            /\ UNCHANGED <<last_sample, bytes_count, total_audio_bytes,
                           freq_samples, freq_samples_decimated, int_samples,
                           header_dataSize, cycles, trace>>]_vars

\* A read failed after at least one block had been written.
C4_Witness ==
    /\ pc = "aborted"
    /\ result < 0
    /\ cycles >= 1
    /\ bytes_count > 0

\* Once bytes_count has reached total_bytes nothing is read or processed.
NoReadPastTotal ==
    [][bytes_count >= total_bytes =>
          UNCHANGED <<tick, read_bytes, result, buffer, bytes_count,
                      last_sample, freq_samples, freq_samples_decimated,
                      int_samples, total_audio_bytes, cycles, trace>>]_vars

\* C3: the loop ends for every sequence of successful reads, whatever byte
\* counts they report, and no read happens once bytes_count has reached
\* total_bytes.
C3_TerminatesAlways ==
    /\ NoReadPastTotal
    /\ <>(pc # "loop")

(***************************************************************************)
(* Properties of the discriminator                                         *)
(***************************************************************************)
\* A float in units of 2^-24, rounded down.
Units(x) ==
    IF x[2] >= -24 THEN x[1] * Pow2(x[2] + 24)
    ELSE IF x[2] < -54 THEN (IF x[1] < 0 THEN -1 ELSE 0)
    ELSE x[1] \div Pow2(-24 - x[2])

\* pi in units of 2^-24, rounded down: floor(M_PI * 2^24).
PiUnits == 4 * MPiMant + 2

\* step * pi/4 in units of 2^-24, rounded down.
DeltaUnits(step) == (step * (4 * MPiMant + 3)) \div 4

\* The float nearest to step * pi/4.
FloatDelta(step) ==
    LET Pos(k) == CASE k = 0 -> Zero
                    [] k = 1 -> QuarterPiF
                    [] k = 2 -> HalfPiF
                    [] k = 3 -> ThreeQuarterPiF
    IN  IF step < 0 THEN FNeg(Pos(-step)) ELSE Pos(step)

\* 2^-20 rad in units of 2^-24.
Tol == Pow2(4)

\* C5 as stated: when the phase advances by the same D at every sample, every
\* discriminator output is D exactly (the float nearest to D), wraps included.
C5_ExactIncrement ==
    (applied /\ arg.kind = "tone") =>
        \A k \in DiscIndices(arg.len) : ret.freq[k] = FloatDelta(arg.step)

\* C5: when the phase advances by the same D at every sample, |D| < pi, every
\* discriminator output is within 2^-20 rad of D, wraps included, and is
\* exactly 0 when D = 0.
C5_IncrementWithinRounding ==
    (applied /\ arg.kind = "tone") =>
        \A k \in DiscIndices(arg.len) :
            IF arg.step = 0
            THEN ret.freq[k] = Zero
            ELSE Abs(Units(ret.freq[k]) - DeltaUnits(arg.step)) <= Tol

\* A tone of step 3 * pi/4 whose phase wrapped past pi between two samples.
C5_Witness ==
    /\ applied
    /\ arg.kind = "tone"
    /\ arg.step = 3
    /\ arg.len >= 3
    /\ \E k \in DiscIndices(arg.len) :
          /\ FLt(Atan2F(arg.q_samples[k + 1], arg.i_samples[k + 1]),
                 Atan2F(arg.q_samples[k], arg.i_samples[k]))
          /\ Abs(Units(ret.freq[k]) - DeltaUnits(3)) <= Tol

\* C6: every discriminator output r satisfies -pi < r <= pi.
C6_OutputInHalfOpenInterval ==
    applied =>
        \A k \in DiscIndices(arg.len) :
            /\ -PiUnits <= Units(ret.freq[k])
            /\ Units(ret.freq[k]) <= PiUnits
            /\ ret.freq[k][2] >= -24 \/ ret.freq[k] = Zero

\* Two samples of opposite phase whose raw difference is -pi as a float.
C6_Witness ==
    /\ applied
    /\ arg.kind = "pair"
    /\ FSub(Atan2F(arg.q_samples[1], arg.i_samples[1]),
            Atan2F(arg.q_samples[0], arg.i_samples[0])) = FNeg(PiF)
    /\ ret.freq[0][1] > 0

(***************************************************************************)
(* Properties of the quantizer and of the decimator                        *)
(***************************************************************************)
\* Division rounding toward zero.
TruncDiv(n, d) == Sgn(n) * (Abs(n) \div d)

Saturate(n) == IF n > 32767 THEN 32767 ELSE IF n < -32768 THEN -32768 ELSE n

\* C7: for every input sample the quantizer multiplies by 32767 and clamps to
\* [-32768, 32767] before narrowing, so every output lies in that range and
\* the conversion never gets a value it cannot represent; 1.5 gives 32767,
\* -2.0 gives -32768 and 0.0 gives 0.
C7_ClampBeforeNarrowing ==
    applied =>
        /\ Representable(ret.res)
        /\ ret.pcm \in Int16
        /\ arg.sample = Scale(FromInt(3), -1) => ret.pcm = 32767
        /\ arg.sample = FromInt(-2) => ret.pcm = -32768
        /\ arg.sample = Zero => ret.pcm = 0

\* What the quantizer does on the samples that are numbers: the value
\* converted is within the clipping limits and the output is the sample
\* times 32767, truncated toward zero and saturated.
QuantizerOnNumbers ==
    (applied /\ arg.sample # NaN) =>
        /\ Representable(ret.res)
        /\ ~FLt(ClipMax, ret.res)
        /\ ~FLt(ret.res, ClipMin)
        /\ ret.pcm = Trunc(ret.res)
        /\ arg.grid => ret.pcm = Saturate(TruncDiv(arg.eighths * 32767, 8))
        /\ arg.sample = Scale(FromInt(3), -1) => ret.pcm = 32767
        /\ arg.sample = FromInt(-2) => ret.pcm = -32768
        /\ arg.sample = Zero => ret.pcm = 0

\* C8: the decimator returns floor(len / D), output k is input k * D, the
\* trailing len mod D samples are not read, nothing else is written, and
\* with D = 20 and len = 100 the inputs read are 0, 20, 40, 60, 80.
C8_EveryDthSample ==
    applied =>
        LET n == arg.len \div arg.D
        IN  /\ ret.ret = n
            /\ ret.writes = 0 .. (n - 1)
            /\ ret.reads = {k * arg.D : k \in 0 .. (n - 1)}
            /\ \A j \in ret.reads : j < n * arg.D
            /\ \A k \in 0 .. (n - 1) :
                  ret.decimated_samples[k] = arg.samples[k * arg.D]
            /\ ret.decimated_samples[n] = Marker
            /\ (arg.D = 20 /\ arg.len = 100) =>
                  (n = 5 /\ ret.reads = {0, 20, 40, 60, 80})

\* The call with D = 20 and len = 100 returned 5.
C8_Witness ==
    /\ applied
    /\ arg.D = 20
    /\ arg.len = 100
    /\ ret.ret = 5
    /\ ret.reads = {0, 20, 40, 60, 80}

=============================================================================
